---------------------------- MODULE Spec2Model ----------------------------
(***************************************************************************)
(* Verification model of chainer/functions/array/resize_images.py: the     *)
(* coordinate/weight generator, the CPU panel gather, the CPU scatter-add, *)
(* the accelerator gradient kernel and the ResizeImages/ResizeImagesGrad   *)
(* function nodes.                                                         *)
(*                                                                         *)
(* Number representation.                                                  *)
(*  - float64 coordinates are computed with IEEE-754 round-to-nearest-even *)
(*    on a 53 bit significand, so that floor() of a rounded quotient or    *)
(*    product is what the code obtains.                                    *)
(*  - float32 array elements (pixels, weights, gradients) are exact        *)
(*    rationals [nan, n, d] or NaN; the rounding of blends is not          *)
(*    modelled, NaN propagation is.                                        *)
(*  - intp indices are [hi, lo], standing for lo - hi * 2^63 modulo 2^64.  *)
(***************************************************************************)
EXTENDS Integers, Sequences, FiniteSets, TLC

VARIABLES
    platform,   \* [xp, nanCast]: the array module and its cast of NaN to intp
    pc,         \* the position of the running call
    nodes,      \* the function nodes built so far, oldest first
    arg,        \* the input array of the running call
    coords,     \* v, u, vw, uw of the running forward()
    loop,       \* the locals of the running loop (panels, _infer_lines)
    thr,        \* per kernel thread, the number of atomicAdd it has done
    result      \* the outcome of the running call

vars == <<platform, pc, nodes, arg, coords, loop, thr, result>>

(***************************************************************************)
(* Small helpers                                                           *)
(***************************************************************************)
Min(a, b) == IF a <= b THEN a ELSE b

Max(a, b) == IF a >= b THEN a ELSE b

RECURSIVE Gcd(_, _)
Gcd(a, b) == IF b = 0 THEN a ELSE Gcd(b, a % b)

(***************************************************************************)
(* float64.  A positive value is [zero, m, e] with the 53 bit significand  *)
(* m = <<1, L1, L2, L3, L4>> in limbs of LimbBits bits below the leading   *)
(* bit, standing for (2^52 + L1*2^39 + L2*2^26 + L3*2^13 + L4) * 2^(e-52). *)
(* The operands of the model stay below 2^12, so no limb product overflows *)
(* and every integer part lies in the leading bit and L1.                  *)
(***************************************************************************)
LimbBits == 13

LimbBase == 2 ^ LimbBits

FZero == [zero |-> TRUE, m |-> <<1, 0, 0, 0, 0>>, e |-> 0]

\* m + 1 (the caller handles the carry out of the leading bit: m[1] = 2).
IncLimbs(m) ==
    LET c4 == IF m[5] + 1 = LimbBase THEN 1 ELSE 0
        c3 == IF m[4] + c4 = LimbBase THEN 1 ELSE 0
        c2 == IF m[3] + c3 = LimbBase THEN 1 ELSE 0
        c1 == IF m[2] + c2 = LimbBase THEN 1 ELSE 0
    IN  <<m[1] + c1, (m[2] + c2) % LimbBase, (m[3] + c3) % LimbBase,
          (m[4] + c4) % LimbBase, (m[5] + 1) % LimbBase>>

\* Round-to-nearest-even: m is followed by the bit `guard` and, when
\* `sticky`, by further nonzero bits.
RoundF(m, guard, sticky, e) ==
    LET up  == guard = 1 /\ (sticky \/ m[5] % 2 = 1)
        inc == IncLimbs(m)
    IN  IF ~up THEN [zero |-> FALSE, m |-> m, e |-> e]
        ELSE IF inc[1] = 1 THEN [zero |-> FALSE, m |-> inc, e |-> e]
        ELSE [zero |-> FALSE, m |-> <<1, 0, 0, 0, 0>>, e |-> e + 1]

\* Largest j >= 0 with b * 2^j <= a (a >= b > 0).
RECURSIVE ShiftUp(_, _, _)
ShiftUp(a, b, j) == IF 2 * b <= a THEN ShiftUp(a, 2 * b, j + 1) ELSE j

\* Smallest k >= 1 with a * 2^k >= b (0 < a < b).
RECURSIVE ShiftDown(_, _, _)
ShiftDown(a, b, k) == IF 2 * a >= b THEN k ELSE ShiftDown(2 * a, b, k + 1)

\* a / b for integers a >= 0, b > 0, correctly rounded: long division, one
\* limb of quotient bits at a time.
DivF(a, b) ==
    IF a = 0 THEN FZero
    ELSE LET up  == a >= b
             j   == IF up THEN ShiftUp(a, b, 0) ELSE 0
             k   == IF up THEN 0 ELSE ShiftDown(a, b, 1)
             num == a * 2 ^ k
             den == b * 2 ^ j
             r0  == num - den
             r1  == (r0 * LimbBase) % den
             r2  == (r1 * LimbBase) % den
             r3  == (r2 * LimbBase) % den
             r4  == (r3 * LimbBase) % den
             m   == <<1, (r0 * LimbBase) \div den, (r1 * LimbBase) \div den,
                      (r2 * LimbBase) \div den, (r3 * LimbBase) \div den>>
             g   == IF 2 * r4 >= den THEN 1 ELSE 0
         IN  RoundF(m, g, 2 * r4 - g * den # 0, j - k)

\* Number of bits of n >= 1.
RECURSIVE BitLength(_)
BitLength(n) == IF n <= 1 THEN n ELSE 1 + BitLength(n \div 2)

\* float(i) * f, correctly rounded (i >= 0 is exactly representable).
MulIntF(i, f) ==
    IF i = 0 \/ f.zero THEN FZero
    ELSE LET t4  == f.m[5] * i
             t3  == f.m[4] * i + t4 \div LimbBase
             t2  == f.m[3] * i + t3 \div LimbBase
             t1  == f.m[2] * i + t2 \div LimbBase
             top == f.m[1] * i + t1 \div LimbBase
             p   == <<top, t1 % LimbBase, t2 % LimbBase, t3 % LimbBase, t4 % LimbBase>>
             s   == BitLength(top) - 1
             sh(k) == ((p[k - 1] % 2 ^ s) * LimbBase + p[k]) \div 2 ^ s
         IN  IF s = 0 THEN [zero |-> FALSE, m |-> p, e |-> f.e]
             ELSE RoundF(<<top \div 2 ^ s, sh(2), sh(3), sh(4), sh(5)>>,
                         (p[5] \div 2 ^ (s - 1)) % 2,
                         p[5] % 2 ^ (s - 1) # 0,
                         f.e + s)

\* The integer part and the next bit of f, for 0 <= f.e < LimbBits.
TopBits(f, n) == (LimbBase + f.m[2]) \div 2 ^ (LimbBits - n)

\* floor(f) for f >= 0.
FloorF(f) == IF f.zero \/ f.e < 0 THEN 0 ELSE TopBits(f, f.e)

\* floor(max(f / 2 - 0.5, 0)): the halving and the subtraction are exact.
FloorHalfMinusHalf(f) ==
    LET h == [f EXCEPT !.e = f.e - 1]
    IN  IF h.zero \/ h.e < 0 THEN 0
        ELSE FloorF(h) - (IF TopBits(h, h.e + 1) % 2 = 1 THEN 0 ELSE 1)

(***************************************************************************)
(* float32 array elements: exact rationals or NaN                          *)
(***************************************************************************)
NaN == [nan |-> TRUE, n |-> 0, d |-> 1]

Rat(n, d) ==
    LET g == Gcd(IF n < 0 THEN 0 - n ELSE n, d)
    IN  [nan |-> FALSE, n |-> n \div g, d |-> d \div g]

Num(n) == [nan |-> FALSE, n |-> n, d |-> 1]

FAdd(a, b) ==
    IF a.nan \/ b.nan THEN NaN ELSE Rat(a.n * b.d + b.n * a.d, a.d * b.d)

FSub(a, b) ==
    IF a.nan \/ b.nan THEN NaN ELSE Rat(a.n * b.d - b.n * a.d, a.d * b.d)

FMul(a, b) ==
    IF a.nan \/ b.nan THEN NaN ELSE Rat(a.n * b.n, a.d * b.d)

\* Sum of f[s] over the finite set S (addition of rationals-or-NaN commutes).
RECURSIVE FSum(_, _)
FSum(S, f) ==
    IF S = {} THEN Num(0)
    ELSE LET s == CHOOSE s \in S : TRUE
         IN  FAdd(f[s], FSum(S \ {s}, f))

(***************************************************************************)
(* intp (64 bit signed): [hi, lo] is lo - hi * 2^63, arithmetic mod 2^64   *)
(***************************************************************************)
Intp(n) == [hi |-> 0, lo |-> n]

IntpMin == [hi |-> 1, lo |-> 0]

IntpAdd(a, b) == [hi |-> (a.hi + b.hi) % 2, lo |-> a.lo + b.lo]

IntpMul(a, k) == [hi |-> (a.hi * k) % 2, lo |-> a.lo * k]

IntpNegative(a) == a.hi = 1 \/ a.lo < 0

\* numpy.minimum(a, k) / CUDA min(a, k) for a small k >= 0.
IntpMinimum(a, k) == IF IntpNegative(a) THEN a ELSE Intp(Min(a.lo, k))

\* A valid (possibly negative, wrapping) numpy index into an axis of length n.
IndexInBounds(a, n) == a.hi = 0 /\ 0 - n <= a.lo /\ a.lo < n

\* The position a valid numpy index denotes.
IndexPos(a, n) == IF a.lo < 0 THEN a.lo + n ELSE a.lo

(***************************************************************************)
(* compute_indices_and_weights                                             *)
(***************************************************************************)
CoordNaN == [nan |-> TRUE, ip |-> 0, w |-> NaN]

\* arange(out) * (size - 1) / (out - 1), then modf.
align_corners_coordinate(i, out, size) ==
    IF out - 1 = 0 THEN CoordNaN
    ELSE LET num == i * (size - 1)
             ip  == FloorF(DivF(num, out - 1))
         IN  [nan |-> FALSE, ip |-> ip, w |-> Rat(num - ip * (out - 1), out - 1)]

\* maximum((arange(out) + 0.5) * size / out - 0.5, 0), then modf.
half_pixel_coordinate(i, out, size) ==
    LET ip  == FloorHalfMinusHalf(DivF((2 * i + 1) * size, out))
        num == Max((2 * i + 1) * size - out, 0)
    IN  [nan |-> FALSE, ip |-> ip, w |-> Rat(num - ip * 2 * out, 2 * out)]

\* minimum(floor(arange(out) * (size / out)), size - 1), weight zeros_like.
nearest_coordinate(i, out, size) ==
    [nan |-> FALSE,
     ip  |-> Min(FloorF(MulIntF(i, DivF(size, out))), size - 1),
     w   |-> Num(0)]

\* One axis: the sequence of [nan, ip, w] for arange(out).
axis_coordinates(out, size, mode, align_corners) ==
    [k \in 1..Max(out, 0) |->
        IF mode = "bilinear"
        THEN IF align_corners THEN align_corners_coordinate(k - 1, out, size)
             ELSE half_pixel_coordinate(k - 1, out, size)
        ELSE nearest_coordinate(k - 1, out, size)]

compute_indices_and_weights(out_H, out_W, H, W, mode, align_corners) ==
    IF mode = "nearest" /\ (out_H = 0 \/ out_W = 0)
    THEN [err |-> "ZeroDivisionError", v |-> << >>, u |-> << >>]
    ELSE [err |-> "none",
          v   |-> axis_coordinates(out_H, H, mode, align_corners),
          u   |-> axis_coordinates(out_W, W, mode, align_corners)]

\* ndarray.astype(intp) of a float64 coordinate; the cast of NaN is not
\* defined by C and gives `nanCast` on the platform at hand.
astype_intp(c, nanCast) == IF c.nan THEN nanCast ELSE Intp(c.ip)

\* v, u as intp and vw, uw as the array dtype: the locals of forward().
cast_indices_and_weights(g, nanCast) ==
    [v  |-> [k \in 1..Len(g.v) |-> astype_intp(g.v[k], nanCast)],
     u  |-> [k \in 1..Len(g.u) |-> astype_intp(g.u[k], nanCast)],
     vw |-> [k \in 1..Len(g.v) |-> g.v[k].w],
     uw |-> [k \in 1..Len(g.u) |-> g.u[k].w]]

(***************************************************************************)
(* _infer_lines                                                            *)
(***************************************************************************)
target_size == 131072

line_size_of(B, C, H, W, out_H, out_W, kH, kW) ==
    B * C * ((H * W) \div out_H + kH * kW * out_W)

\* A variant of the loop test that already breaks when next_lines reaches
\* target_lines.
lines_loop_breaks_at_equal(lines, target_lines) == lines * 2 >= target_lines

\* The body of `while True`: TRUE when the loop breaks.
lines_loop_breaks(lines, target_lines) == lines * 2 > target_lines

RECURSIVE lines_loop(_, _)
lines_loop(lines, target_lines) ==
    IF lines_loop_breaks(lines, target_lines) THEN lines
    ELSE lines_loop(lines * 2, target_lines)

infer_lines(B, C, H, W, out_H, out_W, kH, kW) ==
    IF out_H = 0 THEN [err |-> "ZeroDivisionError", lines |-> 0]
    ELSE LET line_size == line_size_of(B, C, H, W, out_H, out_W, kH, kW)
         IN  IF line_size = 0 THEN [err |-> "ZeroDivisionError", lines |-> 0]
             ELSE LET target_lines == target_size \div line_size
                  IN  [err   |-> "none",
                       lines |-> IF target_lines < out_H
                                 THEN lines_loop(1, target_lines)
                                 ELSE out_H]

(***************************************************************************)
(* Arrays: [ndim, dtype, shape, data]; a 4-D array has shape <<B,C,H,W>>   *)
(* and data[p][h][w] for the planes p (of 0..B*C-1) that the model keeps.  *)
(***************************************************************************)
AllPlanes(B, C) == 0..(B * C - 1)

Array4(shape, data) ==
    [ndim |-> 4, dtype |-> "float32", shape |-> shape, data |-> data]

\* vcol / ucol: the base index and numpy.minimum(base + 1, size - 1).
corner_indices(a, size) ==
    <<a, IntpMinimum(IntpAdd(a, Intp(1)), size - 1)>>

\* wcol[a][b] in the order of the in-place numpy operations.
corner_weights(vw, uw) ==
    LET w01 == uw
        w00 == FSub(Num(1), w01)
        w10 == FMul(w00, vw)
        w11 == FMul(w01, vw)
    IN  << <<FSub(w00, w10), FSub(w01, w11)>>, <<w10, w11>> >>

\* The kernels' w0..w3, as <<w0, w1>>, <<w2, w3>>.
kernel_weights(vw, uw) ==
    << <<FMul(FSub(Num(1), vw), FSub(Num(1), uw)), FMul(FSub(Num(1), vw), uw)>>,
       <<FMul(vw, FSub(Num(1), uw)), FMul(vw, uw)>> >>

\* einsum('ijk,jk->ik') at one output position of one plane.
blend(plane, H, W, vc, uc, wc) ==
    FAdd(FAdd(FAdd(FMul(plane[IndexPos(vc[1], H)][IndexPos(uc[1], W)], wc[1][1]),
                   FMul(plane[IndexPos(vc[1], H)][IndexPos(uc[2], W)], wc[1][2])),
              FMul(plane[IndexPos(vc[2], H)][IndexPos(uc[1], W)], wc[2][1])),
         FMul(plane[IndexPos(vc[2], H)][IndexPos(uc[2], W)], wc[2][2]))

(***************************************************************************)
(* interpolate_bilinear_cpu                                                *)
(***************************************************************************)
\* l = min(lines, out_H - i)
panel_length(i, lines, out_H) == Min(lines, out_H - i)

\* The fancy index x[:, :, vcol[:, None], ucol[None, :]] of the panel of rows
\* i..i_end-1 raises IndexError when an index is out of bounds.
panel_index_error(H, W, idx, i, i_end) ==
    \E r \in i..(i_end - 1), c \in 0..(Len(idx.u) - 1), a \in 1..2 :
        \/ ~IndexInBounds(corner_indices(idx.v[r + 1], H)[a], H)
        \/ ~IndexInBounds(corner_indices(idx.u[c + 1], W)[a], W)

\* y[:, iout:iout_end] of one panel: rows i..i_end-1 of every kept plane.
panel_output(x, idx, i, i_end) ==
    LET H == x.shape[3]
        W == x.shape[4]
    IN  [p \in DOMAIN x.data |->
          [r \in i..(i_end - 1) |->
            [c \in 0..(Len(idx.u) - 1) |->
               blend(x.data[p], H, W,
                     corner_indices(idx.v[r + 1], H),
                     corner_indices(idx.u[c + 1], W),
                     corner_weights(idx.vw[r + 1], idx.uw[c + 1]))]]]

\* A variant of the panel stride that re-visits the last row of a panel.
panel_next_overlapping(i, lines) == i + Max(lines - 1, 1)

\* range(0, out_H, lines): the first row of the panel after the one at i.
panel_next(i, lines) == i + lines

\* The first row of the panel that holds row r.
panel_start(r, lines) == (r \div lines) * lines

interpolate_bilinear_cpu(x, idx) ==
    LET B     == x.shape[1]
        C     == x.shape[2]
        H     == x.shape[3]
        W     == x.shape[4]
        out_H == Len(idx.v)
        out_W == Len(idx.u)
        il    == infer_lines(B, C, H, W, out_H, out_W, 2, 2)
    IN  IF il.err # "none" THEN [err |-> il.err, y |-> << >>]
        ELSE IF panel_index_error(H, W, idx, 0, out_H)
        THEN [err |-> "IndexError", y |-> << >>]
        ELSE [err |-> "none",
              y   |-> Array4(<<B, C, out_H, out_W>>,
                        [p \in DOMAIN x.data |->
                          [r \in 0..(out_H - 1) |->
                             LET i == panel_start(r, il.lines)
                             IN  panel_output(x, idx, i,
                                   i + panel_length(i, il.lines, out_H))[p][r]]])]

(***************************************************************************)
(* interpolate_bilinear_gpu: one thread per element of y                   *)
(***************************************************************************)
\* raw x[k]
raw_read(x, k) ==
    LET H == x.shape[3]
        W == x.shape[4]
    IN  x.data[k \div (H * W)][(k % (H * W)) \div W][k % W]

gather_thread(x, idx, i) ==
    LET H       == x.shape[3]
        W       == x.shape[4]
        out_W   == Len(idx.u)
        outsize == Len(idx.v) * out_W
        r       == (i % outsize) \div out_W
        c       == i % out_W
        vc      == corner_indices(idx.v[r + 1], H)
        uc      == corner_indices(idx.u[c + 1], W)
        w       == kernel_weights(idx.vw[r + 1], idx.uw[c + 1])
        offset  == (i \div outsize) * H * W
        px(a, b) == raw_read(x, offset + vc[a].lo * W + uc[b].lo)
    IN  FAdd(FAdd(FMul(w[1][1], px(1, 1)), FMul(w[1][2], px(1, 2))),
             FAdd(FMul(w[2][1], px(2, 1)), FMul(w[2][2], px(2, 2))))

interpolate_bilinear_gpu(x, idx) ==
    LET out_H == Len(idx.v)
        out_W == Len(idx.u)
    IN  [err |-> "none",
         y   |-> Array4(<<x.shape[1], x.shape[2], out_H, out_W>>,
                   [p \in DOMAIN x.data |->
                     [r \in 0..(out_H - 1) |->
                       [c \in 0..(out_W - 1) |->
                          gather_thread(x, idx, (p * out_H + r) * out_W + c)]]])]

(***************************************************************************)
(* interpolate_grad_bilinear_cpu                                           *)
(***************************************************************************)
\* The positions (p, a, b, i, j) of gycol and of the raveled indices.
scatter_positions(gy) ==
    (DOMAIN gy.data) \X {1, 2} \X {1, 2}
        \X (0..(gy.shape[3] - 1)) \X (0..(gy.shape[4] - 1))

\* offsets[p] + vcol[a] * W + ucol[b], in intp arithmetic.
scatter_index(idx, H, W, t) ==
    IntpAdd(Intp(t[1] * H * W),
            IntpAdd(IntpMul(corner_indices(idx.v[t[4] + 1], H)[t[2]], W),
                    corner_indices(idx.u[t[5] + 1], W)[t[3]]))

\* gycol = gy * wcol
scatter_weight(gy, idx, t) ==
    FMul(gy.data[t[1]][t[4]][t[5]],
         corner_weights(idx.vw[t[4] + 1], idx.uw[t[5] + 1])[t[2]][t[3]])

\* numpy.bincount(indices, weights, minlength) at bin k.
bincount(gy, idx, H, W, k) ==
    LET S == {t \in scatter_positions(gy) : scatter_index(idx, H, W, t) = Intp(k)}
    IN  FSum(S, [t \in S |-> scatter_weight(gy, idx, t)])

interpolate_grad_bilinear_cpu(gy, idx, H, W) ==
    LET B   == gy.shape[1]
        C   == gy.shape[2]
        pos == scatter_positions(gy)
    IN  IF \E t \in pos : IntpNegative(scatter_index(idx, H, W, t))
        THEN [err |-> "ValueError", gx |-> << >>]
        ELSE IF \E t \in pos : scatter_index(idx, H, W, t).lo >= B * C * H * W
        THEN [err |-> "ValueError", gx |-> << >>]
        ELSE [err |-> "none",
              gx  |-> Array4(<<B, C, H, W>>,
                        [p \in DOMAIN gy.data |->
                          [h \in 0..(H - 1) |->
                            [w \in 0..(W - 1) |->
                               bincount(gy, idx, H, W, (p * H + h) * W + w)]]])]

(***************************************************************************)
(* interpolate_grad_bilinear_gpu: one thread per element of gy, four       *)
(* atomicAdd each into the raw buffer gx (flat, zero-initialised)          *)
(***************************************************************************)
\* The k-th (1..4) atomicAdd of thread i: [addr, val].
scatter_step(gy, idx, H, W, i, k) ==
    LET out_W   == gy.shape[4]
        outsize == gy.shape[3] * out_W
        p       == i \div outsize
        r       == (i % outsize) \div out_W
        c       == i % out_W
        a       == (k + 1) \div 2
        b       == 2 - (k % 2)
        vc      == corner_indices(idx.v[r + 1], H)
        uc      == corner_indices(idx.u[c + 1], W)
        w       == kernel_weights(idx.vw[r + 1], idx.uw[c + 1])
        offset  == p * H * W
    IN  [addr |-> offset + vc[a].lo * W + uc[b].lo,
         val  |-> FMul(w[a][b], gy.data[p][r][c])]

\* A variant that stores the value instead of adding it.
atomicAdd_store(buf, addr, val) == [buf EXCEPT ![addr] = val]

atomicAdd(buf, addr, val) == [buf EXCEPT ![addr] = FAdd(@, val)]

gx_zeros(B, C, H, W) == [k \in 0..(B * C * H * W - 1) |-> Num(0)]

\* All four atomicAdd of thread i.
RECURSIVE scatter_thread(_, _, _, _, _, _, _)
scatter_thread(buf, gy, idx, H, W, i, k) ==
    IF k > 4 THEN buf
    ELSE LET s == scatter_step(gy, idx, H, W, i, k)
         IN  scatter_thread(atomicAdd(buf, s.addr, s.val), gy, idx, H, W, i, k + 1)

\* The kernel with its threads run one after the other, from thread i on.
RECURSIVE scatter_threads(_, _, _, _, _, _, _)
scatter_threads(buf, gy, idx, H, W, i, n) ==
    IF i >= n THEN buf
    ELSE scatter_threads(scatter_thread(buf, gy, idx, H, W, i, 1),
                         gy, idx, H, W, i + 1, n)

\* gx.reshape((B, C, H, W))
reshape4(buf, B, C, H, W) ==
    Array4(<<B, C, H, W>>,
           [p \in AllPlanes(B, C) |->
             [h \in 0..(H - 1) |-> [w \in 0..(W - 1) |-> buf[(p * H + h) * W + w]]]])

interpolate_grad_bilinear_gpu(gy, idx, H, W) ==
    LET B == gy.shape[1]
        C == gy.shape[2]
        n == B * C * gy.shape[3] * gy.shape[4]
    IN  [err |-> "none",
         gx  |-> reshape4(scatter_threads(gx_zeros(B, C, H, W), gy, idx, H, W, 0, n),
                          B, C, H, W)]

(***************************************************************************)
(* Bounds of the model                                                     *)
(***************************************************************************)
MaxIn == 2          \* input height and width are 1..MaxIn

MaxOut == 2         \* output height and width are at most MaxOut

MaxC == 1           \* channels 1..MaxC (batch size 1) in the node model

MaxChain == 3       \* nodes along a chain of backward operations

MaxNearIn == 30     \* input height in the nearest-neighbour model

MaxNearOut == 22    \* output height in the nearest-neighbour model

MaxExp == 5         \* _infer_lines is called with sizes up to 2^MaxExp

PlaneExp == 7       \* the panel model has B and C up to 2^PlaneExp

MaxPanelOut == 3    \* output height in the panel model

MaxCGpu == 2        \* channels in the kernel model

MaxThreads == 4     \* threads of one kernel launch in the kernel model

(***************************************************************************)
(* Platforms, input arrays, node parameters                                *)
(***************************************************************************)
\* numpy on a build whose cast of NaN gives INT64_MIN (x86-64) or 0
\* (aarch64); cupy, where the conversion of NaN gives 0 (PTX cvt).
Platforms ==
    { [xp |-> "numpy", nanCast |-> IntpMin],
      [xp |-> "numpy", nanCast |-> Intp(0)],
      [xp |-> "cupy",  nanCast |-> Intp(0)] }

Modes == {"bilinear", "nearest"}

\* data[p][h][w] = g * (1 + flat index): all elements distinct.
Ramp(B, C, H, W, g) ==
    [p \in AllPlanes(B, C) |->
      [h \in 0..(H - 1) |-> [w \in 0..(W - 1) |-> Num(g * (1 + (p * H + h) * W + w))]]]

RampArray(B, C, H, W, g) == Array4(<<B, C, H, W>>, Ramp(B, C, H, W, g))

\* The arrays a caller may pass: the valid ones, and ones of a wrong rank or
\* element type.
InputArrays ==
    { RampArray(1, C, H, W, 1) : C \in 1..MaxC, H \in 1..MaxIn, W \in 1..MaxIn }
    \cup { [RampArray(1, C, H, W, 1) EXCEPT !.dtype = "float64"] :
             C \in 1..MaxC, H \in 1..MaxIn, W \in 1..MaxIn }
    \cup { [ndim |-> 3, dtype |-> "float32", shape |-> <<C, H, W>>, data |-> << >>] :
             C \in 1..MaxC, H \in 1..MaxIn, W \in 1..MaxIn }

\* Output sizes a caller may pass, the non-positive ones included.
OutputSizes == (0 - 1)..MaxOut

NoIdx == [computed |-> FALSE, v |-> << >>, u |-> << >>, vw |-> << >>, uw |-> << >>]

NoLoop == [lines |-> 0, i |-> 0]

NoResult == [produced |-> FALSE, err |-> "none", out |-> << >>]

Raised(e) == [produced |-> FALSE, err |-> e, out |-> << >>]

Returned(a) == [produced |-> TRUE, err |-> "none", out |-> a]

(***************************************************************************)
(* ResizeImages / ResizeImagesGrad                                         *)
(***************************************************************************)
\* ResizeImages.__init__
ResizeImages(output_shape, mode, align_corners) ==
    [kind |-> "ResizeImages", out_H |-> output_shape[1], out_W |-> output_shape[2],
     mode |-> mode, align_corners |-> align_corners,
     input_shape |-> << >>, inputs |-> << >>]

\* ResizeImagesGrad.__init__
ResizeImagesGrad(input_shape, output_shape, mode, align_corners) ==
    [kind |-> "ResizeImagesGrad", out_H |-> output_shape[1], out_W |-> output_shape[2],
     mode |-> mode, align_corners |-> align_corners,
     input_shape |-> input_shape, inputs |-> << >>]

\* check_type_forward of both nodes: type_check.expect(dtype, ndim).
check_type_forward(a) == a.dtype = "float32" /\ a.ndim = 4

\* The (H, W) that forward() hands to compute_indices_and_weights.
forward_in_size(node, a) ==
    IF node.kind = "ResizeImages" THEN <<a.shape[3], a.shape[4]>>
    ELSE <<node.input_shape[3], node.input_shape[4]>>

\* forward(), first part: the coordinates, cast to the locals v, u, vw, uw.
forward_coordinates(node, a) ==
    compute_indices_and_weights(node.out_H, node.out_W,
        forward_in_size(node, a)[1], forward_in_size(node, a)[2],
        node.mode, node.align_corners)

\* forward(), second part: the engine the array module selects.
forward_engine(node, a, ix, xp) ==
    IF node.kind = "ResizeImages"
    THEN LET r == IF xp = "numpy" THEN interpolate_bilinear_cpu(a, ix)
                  ELSE interpolate_bilinear_gpu(a, ix)
         IN  IF r.err = "none" THEN Returned(r.y) ELSE Raised(r.err)
    ELSE LET H == node.input_shape[3]
             W == node.input_shape[4]
             r == IF xp = "numpy" THEN interpolate_grad_bilinear_cpu(a, ix, H, W)
                  ELSE interpolate_grad_bilinear_gpu(a, ix, H, W)
         IN  IF r.err = "none" THEN Returned(r.gx) ELSE Raised(r.err)

\* A variant of backward() that passes the output shape transposed.
backward_node_transposed(node) ==
    IF node.kind = "ResizeImages"
    THEN ResizeImagesGrad(node.inputs, <<node.out_W, node.out_H>>,
                          node.mode, node.align_corners)
    ELSE ResizeImages(<<node.out_W, node.out_H>>, node.mode, node.align_corners)

\* backward() of both nodes: the node it constructs.
backward_node(node) ==
    IF node.kind = "ResizeImages"
    THEN ResizeImagesGrad(node.inputs, <<node.out_H, node.out_W>>,
                          node.mode, node.align_corners)
    ELSE ResizeImages(<<node.out_H, node.out_W>>, node.mode, node.align_corners)

Current == nodes[Len(nodes)]

(***************************************************************************)
(* The node model: resize_images(x, ...) and the backward chain            *)
(***************************************************************************)
Init ==
    /\ platform \in Platforms
    /\ arg \in InputArrays
    /\ pc = "idle"
    /\ nodes = << >>
    /\ coords = NoIdx
    /\ loop = NoLoop
    /\ thr = << >>
    /\ result = NoResult

\* resize_images(): construct the node and enter apply().  The caller's
\* output sizes and mode are drawn from the given sets.
resize_images_with(heights, widths, modes) ==
    /\ pc = "idle"
    /\ \E oh \in heights, ow \in widths, mode \in modes, al \in BOOLEAN :
          nodes' = <<ResizeImages(<<oh, ow>>, mode, al)>>
    /\ pc' = "apply"
    /\ UNCHANGED <<platform, arg, coords, loop, thr, result>>

resize_images == resize_images_with(OutputSizes, OutputSizes, Modes)

\* apply(): the type check, then the inputs are recorded on the node.
apply_check ==
    /\ pc = "apply"
    /\ IF check_type_forward(arg)
       THEN /\ pc' = "checked"
            /\ nodes' = [nodes EXCEPT ![Len(nodes)].inputs = arg.shape]
            /\ UNCHANGED result
       ELSE /\ pc' = "error"
            /\ result' = Raised("InvalidType")
            /\ UNCHANGED nodes
    /\ UNCHANGED <<platform, arg, coords, loop, thr>>

\* forward(): compute_indices_and_weights and the astype casts.
forward_indices ==
    /\ pc = "checked"
    /\ LET g == forward_coordinates(Current, arg)
       IN  IF g.err = "none"
           THEN /\ coords' = [computed |-> TRUE] @@ cast_indices_and_weights(g, platform.nanCast)
                /\ pc' = "indexed"
                /\ UNCHANGED result
           ELSE /\ pc' = "error"
                /\ result' = Raised(g.err)
                /\ UNCHANGED coords
    /\ UNCHANGED <<platform, arg, nodes, loop, thr>>

\* forward(): the interpolation or scatter engine, to the returned array.
forward_interpolate ==
    /\ pc = "indexed"
    /\ result' = forward_engine(Current, arg, coords, platform.xp)
    /\ pc' = IF result'.err = "none" THEN "done" ELSE "error"
    /\ UNCHANGED <<platform, arg, nodes, coords, loop, thr>>

\* backward(): build the paired node and apply it to grad_outputs.
backward ==
    /\ pc = "done"
    /\ Len(nodes) < MaxChain
    /\ nodes' = Append(nodes, backward_node(Current))
    /\ LET sh == result.out.shape
       IN  arg' = RampArray(sh[1], sh[2], sh[3], sh[4], 1)
    /\ pc' = "apply"
    /\ coords' = NoIdx
    /\ result' = NoResult
    /\ UNCHANGED <<platform, loop, thr>>

Next ==
    \/ resize_images
    \/ apply_check
    \/ forward_indices
    \/ forward_interpolate
    \/ backward

Spec == Init /\ [][Next]_vars

(***************************************************************************)
(* Claims settled in the node model                                        *)
(***************************************************************************)
\* <a, b>: the inner product of two arrays of one shape.
Inner(a, b) ==
    LET cells == (DOMAIN a.data) \X (0..(a.shape[3] - 1)) \X (0..(a.shape[4] - 1))
    IN  FSum(cells, [t \in cells |-> FMul(a.data[t[1]][t[2]][t[3]],
                                          b.data[t[1]][t[2]][t[3]])])

\* Equality of two float values as numbers (NaN equals nothing).
FEq(a, b) == ~a.nan /\ ~b.nan /\ a = b

\* The running call is resize_images(x, (out_H, out_W), ...) with a valid
\* array and a valid output size.
ValidResizeCall ==
    /\ Len(nodes) >= 1
    /\ nodes[1].out_H >= 1
    /\ nodes[1].out_W >= 1

\* The input of the first node of a chain that got past its type check.
FirstInput == RampArray(nodes[1].inputs[1], nodes[1].inputs[2],
                        nodes[1].inputs[3], nodes[1].inputs[4], 1)

\* C1: on the CPU engines a valid call, for every mode and alignment, runs
\* through without an error, and the forward result y of x and the
\* gradient gx of gy, computed from the same indices and weights, satisfy
\* <y, gy> = <x, gx>.
C1_AdjointLaw ==
    (/\ ValidResizeCall
     /\ platform.xp = "numpy"
     /\ check_type_forward(arg)
     /\ Len(nodes) <= 2)
    => /\ pc # "error"
       /\ (Len(nodes) = 2 /\ pc = "done")
             => LET x == FirstInput
                    y == forward_engine(nodes[1], x,
                             [computed |-> TRUE] @@ cast_indices_and_weights(
                                 forward_coordinates(nodes[1], x), platform.nanCast),
                             platform.xp).out
                IN  FEq(Inner(y, arg), Inner(x, result.out))

\* C2: a bilinear, align_corners resize to the input's own size ends with
\* the input returned unchanged.
C2_IdentityLaw ==
    (/\ Len(nodes) = 1
     /\ pc \in {"done", "error"}
     /\ check_type_forward(arg)
     /\ Current.mode = "bilinear"
     /\ Current.align_corners
     /\ Current.out_H = arg.shape[3]
     /\ Current.out_W = arg.shape[4])
    => result.produced /\ result.out.data = arg.data

\* The four corner indices of one axis are 0 <= c0 <= c1 <= size - 1 with
\* c1 = min(c0 + 1, size - 1).
CornersClamped(a, size) ==
    LET c == corner_indices(a, size)
    IN  /\ c[1].hi = 0
        /\ c[2].hi = 0
        /\ 0 <= c[1].lo
        /\ c[1].lo <= c[2].lo
        /\ c[2].lo <= size - 1
        /\ c[2].lo = Min(c[1].lo + 1, size - 1)

\* C3: whenever forward() of either node has its indices, every corner
\* index of every output position lies inside the input plane.
C3_BorderClamp ==
    (ValidResizeCall /\ coords.computed)
    => LET hw == forward_in_size(Current, arg)
       IN  /\ \A r \in 1..Len(coords.v) : CornersClamped(coords.v[r], hw[1])
           /\ \A c \in 1..Len(coords.u) : CornersClamped(coords.u[c], hw[2])

\* A usage error of the taxonomy: wrong rank, wrong element type, or a
\* non-positive output size.
UsageError ==
    /\ Len(nodes) >= 1
    /\ \/ arg.ndim # 4
       \/ arg.dtype # "float32"
       \/ Current.out_H <= 0
       \/ Current.out_W <= 0

\* C5: a call with a usage error never computes coordinates and never
\* produces an output.
C5_UsageErrorsRejectedFirst ==
    UsageError => (~coords.computed /\ ~result.produced)

\* C6: bilinear align_corners with a single output row (column) gives the
\* base index 0 with weight 0 on that axis.
C6_SingleOutputGuarded ==
    (/\ ValidResizeCall
     /\ pc = "indexed"
     /\ Current.mode = "bilinear"
     /\ Current.align_corners)
    => LET g    == forward_coordinates(Current, arg)
           zero == [nan |-> FALSE, ip |-> 0, w |-> Num(0)]
       IN  /\ Current.out_H = 1 => g.v = <<zero>>
           /\ Current.out_W = 1 => g.u = <<zero>>

\* The parameters a node is constructed with.
Params(node) == <<node.kind, node.out_H, node.out_W, node.mode,
                  node.align_corners, node.input_shape>>

ChainPaired ==
    \A k \in 1..Len(nodes) :
        /\ nodes[k].kind = IF k % 2 = 1 THEN "ResizeImages" ELSE "ResizeImagesGrad"
        /\ nodes[k].out_H = nodes[1].out_H
        /\ nodes[k].out_W = nodes[1].out_W
        /\ nodes[k].mode = nodes[1].mode
        /\ nodes[k].align_corners = nodes[1].align_corners
        /\ (nodes[k].kind = "ResizeImagesGrad"
              => nodes[k].input_shape = nodes[k - 1].inputs)

ParamsKept ==
    /\ Len(nodes') >= Len(nodes)
    /\ \A k \in 1..Len(nodes) : Params(nodes'[k]) = Params(nodes[k])

\* C10: along a chain of backward operations the node kinds alternate
\* ResizeImages, ResizeImagesGrad, ...; every node carries the first node's
\* (out_H, out_W, mode, align_corners); a ResizeImagesGrad node's
\* input_shape is the shape of the input of the node that built it; and no
\* step changes the parameters of a node already built.
C10_NodePairing == [](ChainPaired) /\ [][ParamsKept]_vars

C10_Witness ==
    /\ Len(nodes) = 3
    /\ pc = "done"
    /\ nodes[1].out_H # nodes[1].out_W
    /\ nodes[1].inputs[3] # nodes[1].inputs[4]

(***************************************************************************)
(* The nearest-neighbour model: one tall column resized in nearest mode    *)
(***************************************************************************)
NearestInputs == { RampArray(1, 1, H, 1, 1) : H \in 1..MaxNearIn }

InitNearest ==
    /\ platform \in Platforms
    /\ arg \in NearestInputs
    /\ pc = "idle"
    /\ nodes = << >>
    /\ coords = NoIdx
    /\ loop = NoLoop
    /\ thr = << >>
    /\ result = NoResult

resize_images_nearest == resize_images_with(1..MaxNearOut, {1}, {"nearest"})

NextNearest ==
    \/ resize_images_nearest
    \/ apply_check
    \/ forward_indices
    \/ forward_interpolate

SpecNearest == InitNearest /\ [][NextNearest]_vars

\* C4: in nearest mode every output pixel (i, j) is the input pixel at row
\* min(floor(i * H / out_H), H - 1) and column min(floor(j * W / out_W),
\* W - 1), the quotient taken exactly.
C4_NearestSelection ==
    (/\ Len(nodes) = 1
     /\ pc = "done"
     /\ Current.mode = "nearest")
    => LET H == arg.shape[3]
           W == arg.shape[4]
       IN  \A p \in DOMAIN arg.data :
           \A i \in 0..(Current.out_H - 1) :
           \A j \in 0..(Current.out_W - 1) :
               result.out.data[p][i][j] =
                   arg.data[p][Min((i * H) \div Current.out_H, H - 1)]
                              [Min((j * W) \div Current.out_W, W - 1)]

(***************************************************************************)
(* The panel-size model: _infer_lines, one step per loop iteration         *)
(***************************************************************************)
\* The sizes _infer_lines is called with: small ones and powers of two.
LineDims == (1..MaxIn) \cup { 2 ^ k : k \in 2..MaxExp }

InitLines ==
    /\ platform \in { q \in Platforms : q.xp = "numpy" /\ q.nanCast = Intp(0) }
    /\ arg \in [B : {1, 2 ^ MaxExp}, C : LineDims, H : LineDims, W : LineDims,
                out_H : LineDims, out_W : LineDims, kH : {2}, kW : {2}]
    /\ pc = "lines_entry"
    /\ nodes = << >>
    /\ coords = NoIdx
    /\ loop = NoLoop
    /\ thr = << >>
    /\ result = NoResult

\* _infer_lines up to the `if`: line_size, target_lines and the branch.
lines_entry ==
    /\ pc = "lines_entry"
    /\ LET line_size    == line_size_of(arg.B, arg.C, arg.H, arg.W,
                                        arg.out_H, arg.out_W, arg.kH, arg.kW)
           target_lines == target_size \div line_size
       IN  IF target_lines < arg.out_H
           THEN /\ loop' = [line_size |-> line_size, target_lines |-> target_lines,
                            lines |-> 1, iters |-> 0]
                /\ pc' = "lines_loop"
           ELSE /\ loop' = [line_size |-> line_size, target_lines |-> target_lines,
                            lines |-> arg.out_H, iters |-> 0]
                /\ pc' = "lines_return"
    /\ UNCHANGED <<platform, arg, nodes, coords, thr, result>>

\* One pass through the body of `while True`.
lines_loop_step ==
    /\ pc = "lines_loop"
    /\ IF lines_loop_breaks(loop.lines, loop.target_lines)
       THEN /\ pc' = "lines_return"
            /\ loop' = [loop EXCEPT !.iters = @ + 1]
       ELSE /\ pc' = "lines_loop"
            /\ loop' = [loop EXCEPT !.lines = @ * 2, !.iters = @ + 1]
    /\ UNCHANGED <<platform, arg, nodes, coords, thr, result>>

\* return lines
lines_return ==
    /\ pc = "lines_return"
    /\ pc' = "lines_done"
    /\ result' = [produced |-> TRUE, err |-> "none", out |-> loop.lines]
    /\ UNCHANGED <<platform, arg, nodes, coords, loop, thr>>

NextLines ==
    \/ lines_entry
    \/ lines_loop_step
    \/ lines_return

SpecLines == InitLines /\ [][NextLines]_vars

RECURSIVE IsPowerOfTwo(_)
IsPowerOfTwo(n) == n = 1 \/ (n > 1 /\ n % 2 = 0 /\ IsPowerOfTwo(n \div 2))

\* The returned value is in 1..out_H, is what the one-shot definition
\* gives, and is the largest power of two within the budget when the budget
\* allows at least one but fewer than out_H rows.
LinesReturned ==
    /\ 1 <= result.out
    /\ result.out <= arg.out_H
    /\ result.out = infer_lines(arg.B, arg.C, arg.H, arg.W,
                                arg.out_H, arg.out_W, arg.kH, arg.kW).lines
    /\ (loop.target_lines >= 1 /\ loop.target_lines < arg.out_H)
          => /\ IsPowerOfTwo(result.out)
             /\ result.out <= loop.target_lines
             /\ result.out * 2 > loop.target_lines

\* The selection loop ends: after k passes through its body 2^(k-1) is
\* still within max(target_lines, 1), which is at most 2^17.
LinesLoopBounded ==
    /\ loop.target_lines <= target_size
    /\ loop.iters >= 1 => 2 ^ (loop.iters - 1) <= Max(loop.target_lines, 1)

\* C9 as stated: the returned lines is in 1..out_H, lines * line_size never
\* exceeds 2^17, and the loop ends.
C9_BudgetAlwaysKept ==
    /\ pc # "lines_entry" => LinesLoopBounded
    /\ pc = "lines_done"
          => /\ LinesReturned
             /\ result.out * loop.line_size <= target_size
             /\ loop.target_lines < arg.out_H
                   => /\ IsPowerOfTwo(result.out)
                      /\ result.out <= loop.target_lines
                      /\ result.out * 2 > loop.target_lines

\* C9, amended: the returned lines is in 1..out_H and the loop ends;
\* lines * line_size stays within 2^17 whenever one row fits the budget
\* (line_size <= 2^17), and otherwise lines = 1.
C9_BudgetKeptWhenOneRowFits ==
    /\ pc # "lines_entry" => LinesLoopBounded
    /\ pc = "lines_done"
          => /\ LinesReturned
             /\ IF loop.line_size <= target_size
                THEN result.out * loop.line_size <= target_size
                ELSE result.out = 1

\* A call whose budget allows some rows but not all, ended after at least
\* one doubling.
C9_Witness ==
    /\ pc = "lines_done"
    /\ loop.target_lines >= 2
    /\ loop.target_lines < arg.out_H
    /\ result.out >= 2
    /\ result.out < arg.out_H

(***************************************************************************)
(* The panel model: interpolate_bilinear_cpu, one step per output panel    *)
(***************************************************************************)
\* A large batch keeps only its first and last plane.
PanelArray(B, C, H, W) ==
    Array4(<<B, C, H, W>>,
           [p \in {0, B * C - 1} |->
             [h \in 0..(H - 1) |-> [w \in 0..(W - 1) |-> Num(1 + (p * H + h) * W + w)]]])

PanelInputs ==
    { PanelArray(B, C, H, W) :
        B \in {1, 2 ^ PlaneExp}, C \in {1, 2 ^ (PlaneExp - 1), 2 ^ PlaneExp},
        H \in 1..MaxIn, W \in 1..MaxIn }

\* An element of numpy.empty that no panel has written yet.
Unwritten == [nan |-> FALSE, n |-> 0, d |-> 0]

InitPanel ==
    /\ platform \in { q \in Platforms : q.xp = "numpy" }
    /\ arg \in PanelInputs
    /\ pc = "idle"
    /\ nodes = << >>
    /\ coords = NoIdx
    /\ loop = NoLoop
    /\ thr = << >>
    /\ result = NoResult

resize_images_panel == resize_images_with(1..MaxPanelOut, 1..MaxOut, {"bilinear"})

\* interpolate_bilinear_cpu up to the loop: lines and the empty y.
panel_enter ==
    /\ pc = "indexed"
    /\ platform.xp = "numpy"
    /\ Current.kind = "ResizeImages"
    /\ LET out_H == Len(coords.v)
           out_W == Len(coords.u)
           il    == infer_lines(arg.shape[1], arg.shape[2], arg.shape[3], arg.shape[4],
                                out_H, out_W, 2, 2)
       IN  IF il.err # "none"
           THEN /\ pc' = "error"
                /\ result' = Raised(il.err)
                /\ UNCHANGED loop
           ELSE /\ pc' = "panel"
                /\ loop' = [lines |-> il.lines, i |-> 0,
                            written |-> [r \in 0..(out_H - 1) |-> 0]]
                /\ result' = [produced |-> FALSE, err |-> "none",
                              out |-> Array4(<<arg.shape[1], arg.shape[2], out_H, out_W>>,
                                        [p \in DOMAIN arg.data |->
                                          [r \in 0..(out_H - 1) |->
                                            [c \in 0..(out_W - 1) |-> Unwritten]]])]
    /\ UNCHANGED <<platform, arg, nodes, coords, thr>>

\* One pass through the body of `for i in range(0, out_H, lines)`.
panel_step ==
    /\ pc = "panel"
    /\ loop.i < Len(coords.v)
    /\ LET i     == loop.i
           i_end == i + panel_length(i, loop.lines, Len(coords.v))
       IN  IF panel_index_error(arg.shape[3], arg.shape[4], coords, i, i_end)
           THEN /\ pc' = "error"
                /\ result' = Raised("IndexError")
                /\ UNCHANGED loop
           ELSE LET rows == panel_output(arg, coords, i, i_end)
                IN  /\ pc' = "panel"
                    /\ result' = [result EXCEPT !.out.data =
                                    [p \in DOMAIN @ |->
                                      [r \in DOMAIN @[p] |->
                                         IF r \in i..(i_end - 1) THEN rows[p][r]
                                         ELSE @[p][r]]]]
                    /\ loop' = [loop EXCEPT
                                  !.i = panel_next(i, loop.lines),
                                  !.written = [r \in DOMAIN @ |->
                                                 IF r \in i..(i_end - 1) THEN @[r] + 1
                                                 ELSE @[r]]]
    /\ UNCHANGED <<platform, arg, nodes, coords, thr>>

\* return y.reshape((B, C, out_H, out_W))
panel_return ==
    /\ pc = "panel"
    /\ loop.i >= Len(coords.v)
    /\ pc' = "done"
    /\ result' = Returned(result.out)
    /\ UNCHANGED <<platform, arg, nodes, coords, loop, thr>>

NextPanel ==
    \/ resize_images_panel
    \/ apply_check
    \/ forward_indices
    \/ panel_enter
    \/ panel_step
    \/ panel_return

SpecPanel == InitPanel /\ [][NextPanel]_vars

\* The bilinear formula at one output pixel, from the four corner pixels
\* and the weights (1-uw)(1-vw), uw(1-vw), (1-uw)vw, uw vw.
DirectPixel(p, r, c) ==
    LET H   == arg.shape[3]
        W   == arg.shape[4]
        v0  == coords.v[r + 1]
        u0  == coords.u[c + 1]
        v1  == IntpMinimum(IntpAdd(v0, Intp(1)), H - 1)
        u1  == IntpMinimum(IntpAdd(u0, Intp(1)), W - 1)
        vw  == coords.vw[r + 1]
        uw  == coords.uw[c + 1]
        X(a, b) == arg.data[p][a.lo][b.lo]
    IN  FAdd(FAdd(FMul(FMul(FSub(Num(1), uw), FSub(Num(1), vw)), X(v0, u0)),
                  FMul(FMul(uw, FSub(Num(1), vw)), X(v0, u1))),
             FAdd(FMul(FMul(FSub(Num(1), uw), vw), X(v1, u0)),
                  FMul(FMul(uw, vw), X(v1, u1))))

\* Evaluating the formula directly would index outside the input plane.
DirectFaults ==
    \/ \E r \in 1..Len(coords.v) : ~IndexInBounds(coords.v[r], arg.shape[3])
    \/ \E c \in 1..Len(coords.u) : ~IndexInBounds(coords.u[c], arg.shape[4])

RowsAreDirect(rows) ==
    \A p \in DOMAIN arg.data : \A r \in rows : \A c \in 0..(Len(coords.u) - 1) :
        result.out.data[p][r][c] = DirectPixel(p, r, c)

\* C8: the panels cover the output rows in order, each row written exactly
\* once; every row written holds the value of the direct per-pixel formula,
\* so the returned array is the directly evaluated one for every panel
\* size; and the panelled run fails exactly when the direct one would.
C8_PanelsInvisible ==
    /\ pc = "panel"
          => /\ \A r \in DOMAIN loop.written :
                    loop.written[r] = IF r < loop.i THEN 1 ELSE 0
             /\ RowsAreDirect({r \in DOMAIN loop.written : r < loop.i})
    /\ (pc = "done" /\ coords.computed)
          => /\ \A r \in DOMAIN loop.written : loop.written[r] = 1
             /\ ~DirectFaults
             /\ RowsAreDirect(DOMAIN loop.written)
    /\ (pc = "error" /\ coords.computed)
          => /\ result.err = "IndexError"
             /\ DirectFaults

\* A run of several panels, the last one shorter, with a row that blends
\* two input rows.
C8_Witness ==
    /\ pc = "done"
    /\ loop.lines >= 2
    /\ loop.lines < Len(coords.v)
    /\ Len(coords.v) % loop.lines # 0
    /\ arg.shape[3] >= 2
    /\ \E r \in 1..Len(coords.v) : coords.vw[r] \notin {Num(0), Num(1), NaN}

(***************************************************************************)
(* The kernel model: interpolate_grad_bilinear_gpu, its threads            *)
(* interleaved at the granularity of one atomicAdd                         *)
(***************************************************************************)
\* ResizeImagesGrad.forward entered on a device array gy: the node was
\* built by backward() of a ResizeImages node whose input was
\* (1, C, H, W), and apply() has recorded gy's shape.
KernelNodes ==
    { [ResizeImagesGrad(<<1, C, H, W>>, <<oh, ow>>, mode, al)
         EXCEPT !.inputs = <<1, C, oh, ow>>] :
        C \in 1..MaxCGpu, H \in 1..MaxIn, W \in 1..MaxIn,
        oh \in 1..MaxOut, ow \in 1..MaxOut, mode \in Modes, al \in BOOLEAN }

InitKernel ==
    /\ platform \in { q \in Platforms : q.xp = "cupy" }
    /\ nodes \in { <<n>> : n \in { m \in KernelNodes :
                       m.inputs[2] * m.out_H * m.out_W <= MaxThreads } }
    /\ arg = RampArray(1, nodes[1].inputs[2], nodes[1].out_H, nodes[1].out_W, 1)
    /\ pc = "checked"
    /\ coords = NoIdx
    /\ loop = NoLoop
    /\ thr = << >>
    /\ result = NoResult

\* gx = cupy.zeros(...) and the launch of one thread per element of gy.
kernel_launch ==
    /\ pc = "indexed"
    /\ platform.xp = "cupy"
    /\ Current.kind = "ResizeImagesGrad"
    /\ pc' = "kernel"
    /\ thr' = [i \in 0..(arg.shape[1] * arg.shape[2] * arg.shape[3] * arg.shape[4] - 1)
                 |-> 0]
    /\ result' = [produced |-> FALSE, err |-> "none",
                  out |-> gx_zeros(arg.shape[1], arg.shape[2],
                                   Current.input_shape[3], Current.input_shape[4])]
    /\ UNCHANGED <<platform, arg, nodes, coords, loop>>

\* Thread i performs its next atomicAdd.
kernel_atomicAdd ==
    /\ pc = "kernel"
    /\ \E i \in DOMAIN thr :
          /\ thr[i] < 4
          /\ LET s == scatter_step(arg, coords, Current.input_shape[3],
                                   Current.input_shape[4], i, thr[i] + 1)
             IN  result' = [result EXCEPT !.out = atomicAdd(@, s.addr, s.val)]
          /\ thr' = [thr EXCEPT ![i] = @ + 1]
    /\ UNCHANGED <<platform, pc, arg, nodes, coords, loop>>

\* All threads are through: return gx.reshape((B, C, H, W)).
kernel_return ==
    /\ pc = "kernel"
    /\ \A i \in DOMAIN thr : thr[i] = 4
    /\ pc' = "done"
    /\ result' = Returned(reshape4(result.out, arg.shape[1], arg.shape[2],
                                   Current.input_shape[3], Current.input_shape[4]))
    /\ UNCHANGED <<platform, arg, nodes, coords, loop, thr>>

NextKernel ==
    \/ forward_indices
    \/ kernel_launch
    \/ kernel_atomicAdd
    \/ kernel_return

SpecKernel == InitKernel /\ [][NextKernel]_vars

\* Every atomicAdd of the launch: (thread, corner) |-> [addr, val].
KernelSteps ==
    [t \in (DOMAIN thr) \X (1..4) |->
        scatter_step(arg, coords, Current.input_shape[3],
                     Current.input_shape[4], t[1], t[2])]

\* The sum of the values that the steps S add into cell k.
ContributionSum(steps, S, k) ==
    LET into == {t \in S : steps[t].addr = k}
    IN  FSum(into, [t \in into |-> steps[t].val])

\* C7: whatever the interleaving of the threads' atomic additions, each
\* cell of the returned gx is the sum of all contributions made to it, and
\* gx is the array the sequential CPU scatter-add computes from the same
\* indices and weights.
C7_AtomicScatter ==
    (pc = "done" /\ thr # << >>)
          => LET H     == Current.input_shape[3]
                 W     == Current.input_shape[4]
                 seq   == interpolate_grad_bilinear_cpu(arg, coords, H, W)
                 steps == KernelSteps
             IN  /\ seq.err = "none"
                 /\ result.out = seq.gx
                 /\ \A p \in DOMAIN result.out.data :
                    \A h \in 0..(H - 1) : \A w \in 0..(W - 1) :
                        result.out.data[p][h][w] =
                            ContributionSum(steps, DOMAIN steps, (p * H + h) * W + w)

\* A finished kernel in which two threads added non-zero values into one
\* cell.
C7_Witness ==
    /\ pc = "done"
    /\ thr # << >>
    /\ \E t1, t2 \in DOMAIN KernelSteps :
          /\ t1[1] # t2[1]
          /\ KernelSteps[t1].addr = KernelSteps[t2].addr
          /\ ~KernelSteps[t1].val.nan /\ KernelSteps[t1].val # Num(0)
          /\ ~KernelSteps[t2].val.nan /\ KernelSteps[t2].val # Num(0)

=============================================================================
